---- MODULE Spec2Model ----
(***************************************************************************)
(* Model of utils/process.py: the autoprocess dispatch loop, the worker    *)
(* side process() pipeline, the processing_finished done-callback and the  *)
(* batch branch of main().                                                 *)
(*                                                                         *)
(* The dispatch loop runs on the main thread.  A done-callback runs on the *)
(* thread that resolves the future (a pool management thread), or inline   *)
(* in add_done_callback when the future is already resolved, so the loop   *)
(* and the callbacks interleave statement by statement.  process() runs in *)
(* a separate worker process and only shares the Task Store.               *)
(***************************************************************************)
EXTENDS Integers, Sequences, FiniteSets, TLC

\* ---------------------------------------------------------------- bounds
NumTasks == 2        \* task ids in the store are 1..NumTasks
MaxSubmit == 2       \* pool.schedule calls explored per run
MaxParallel == 2     \* largest --parallel value explored
MaxCountCfg == 1     \* largest cfg.cuckoo.max_analysis_count explored

TaskIds == 1..NumTasks
Handles == 1..MaxSubmit

\* ------------------------------------------------------------- constants
TASK_COMPLETED == "completed"
TASK_FAILED_PROCESSING == "failed_processing"
TASK_REPORTED == "reported"

\* What future.result() does in processing_finished:
\*   success         returns
\*   timeout         pool raised TimeoutError("Task timeout", seconds)
\*   expired         pebble.ProcessExpired
\*   exception       an exception of process() that is not a TimeoutError
\*   timeout_noargs  a TimeoutError raised inside process() itself and
\*                   propagated by the pool; it carries fewer than two args
Failures == {"timeout", "expired", "exception", "timeout_noargs"}
Outcomes == {"success"} \cup Failures
\* exceptions a pipeline stage can raise inside the worker
StageErrors == {"exception", "timeout_noargs"}
\* exceptions the dispatch loop can meet on the main thread
LoopErrors == {"Exception", "MemoryError", "KeyboardInterrupt"}

VARIABLES
  mode,                \* "auto" (args.id == "auto") or "batch"
  parallel,            \* args.parallel
  failed_processing,   \* args.failed_processing
  maxcount,            \* cfg.cuckoo.max_analysis_count
  report,              \* the report argument of process()
  status,              \* Task Store: task id -> status
  nwrites,             \* terminal status writes per task: "none", "one", "many"
  timed_out,           \* tasks whose run the pool ended at the timeout (history)
  submitted,           \* tasks handed to pool.schedule so far (history)
  candidate,           \* an eligible task was outside the registry at line 269
  pending_future_map,  \* future -> task id
  pending_task_id_map, \* task id -> future
  pc,                  \* position of the main thread
  count,               \* autoprocess: count
  tasks,               \* autoprocess: tasks (result of db.list_tasks)
  idx,                 \* autoprocess: position of the for loop in tasks
  cur,                 \* autoprocess: task of the current for iteration
  future,              \* autoprocess: future
  ended_by,            \* why the main thread left its loop
  exit_code,           \* exit status of the program (-1 while running)
  htask,               \* task bound to each live future (0: no such future)
  wpc,                 \* position of process() for each future
  outcome,             \* how each future resolved ("none": unresolved)
  cbpc,                \* position of processing_finished for each future
  exists,              \* batch: ids whose analysis folder exists
  binaries,            \* content hashes with a copy under storage/binaries
  id_string,           \* batch: the id argument, split at "," and "-"
  block,               \* batch: position of <<start, end>> in args.id
  num                  \* batch: num

vars == <<mode, parallel, failed_processing, maxcount, report, status, nwrites, timed_out,
          submitted, candidate,
          pending_future_map, pending_task_id_map, pc, count, tasks, idx, cur,
          future, ended_by, exit_code, htask, wpc, outcome, cbpc, exists,
          binaries, id_string, block, num>>

cfgvars == <<mode, parallel, failed_processing, maxcount, report, exists, id_string>>
batchvars == <<block, num>>
loopvars == <<pc, count, tasks, idx, cur, future, candidate, ended_by, exit_code>>
mapvars == <<pending_future_map, pending_task_id_map>>
storevars == <<status, nwrites>>
itervars == <<tasks, idx, cur, future, candidate>>
histvars == <<timed_out, submitted>>
poolvars == <<htask, wpc, outcome, cbpc>>

\* --------------------------------------------------------------- helpers
EmptyMap == [x \in {} |-> 0]

\* the whole map emptied in place of one key removed
MapPopClears(m, k) == EmptyMap

\* dict.pop(key) / del: the map without key
MapPop(m, k) == [x \in DOMAIN m \ {k} |-> m[x]]

\* dict[key] = value
MapSet(m, k, v) == [x \in DOMAIN m \cup {k} |-> IF x = k THEN v ELSE m[x]]

\* Task.completed_on of the stored tasks: distinct, and not in id order
CompletedOn(t) == NumTasks + 1 - t

RECURSIVE SortByCompletedOn(_)
SortByCompletedOn(S) ==
  IF S = {} THEN <<>>
  ELSE LET first == CHOOSE t \in S : \A u \in S : CompletedOn(t) <= CompletedOn(u)
       IN <<first>> \o SortByCompletedOn(S \ {first})

Take(s, n) == IF Len(s) <= n THEN s ELSE SubSeq(s, 1, n)

\* the limit of the query fixed at 1 in place of the parallelism
ListTasksLimitOne(store, st, lim) ==
  Take(SortByCompletedOn({t \in TaskIds : store[t] = st}), 1)

\* db.list_tasks(status=st, limit=lim, order_by=Task.completed_on.asc())
ListTasks(store, st, lim) ==
  Take(SortByCompletedOn({t \in TaskIds : store[t] = st}), lim)

\* the status autoprocess asks the store for
EligibleStatus(fp) == IF fp THEN TASK_FAILED_PROCESSING ELSE TASK_COMPLETED

\* the loop condition off by one: <= instead of <
WhileCondOffByOne(c, mc) == c <= mc \/ mc = 0

\* while count < maxcount or not maxcount
WhileCond(c, mc) == c < mc \/ mc = 0

\* the capacity check off by one: > instead of >=
PoolFullOffByOne(m, par) == Cardinality(DOMAIN m) > par

\* if len(pending_task_id_map) >= parallel
PoolFull(m, par) == Cardinality(DOMAIN m) >= par

\* the registry check dropped: no candidate is ever skipped
AlreadyPendingNever(m, t) == FALSE

\* if pending_task_id_map.get(task.id)
AlreadyPending(m, t) == t \in DOMAIN m

\* the report branch taken whatever the flag
ReportEnabledAlways(r) == TRUE

\* if report:
ReportEnabled(r) == r

\* Signature stage left out: Reporting follows Processing
StageAfterSkipsSignatures(stage) ==
  IF stage = "processing" THEN "reporting" ELSE "reporting"

\* lines 117-133: the statement order of process(): RunProcessing, then
\* RunSignatures, then (under if report:) RunReporting
StageAfter(stage) ==
  IF stage = "processing" THEN "signatures" ELSE "reporting"

\* the MemoryError clause lost: every way out of the loop exits with 0
ExitCodeAlwaysZero(why) == 0

\* lines 310-322 and 504-506: sys.exit(1) in the MemoryError clause; the
\* other ways out of autoprocess end the program normally
ExitCode(why) == IF why = "MemoryError" THEN 1 ELSE 0

\* Database().set_status(task_id, st) with st a terminal status
SetStatus(t, st) ==
  /\ status' = [status EXCEPT ![t] = st]
  /\ nwrites' = [nwrites EXCEPT ![t] = IF @ = "none" THEN "one" ELSE "many"]

\* the futures that exist: scheduled, and not yet dropped by their callback
Scheduled == {h \in Handles : htask[h] # 0}
Running(h) == wpc[h] \notin {"none", "done"}

\* the content hash of the sample of a task (sample_sha256, lines 284-288):
\* tasks 1 and 2 are analyses of one sample, tasks 3 and 4 of another
Sha(t) == (t + 1) \div 2
Hashes == {Sha(t) : t \in TaskIds}

\* cfg.cuckoo.delete_bin_copy (line 141), enabled
delete_bin_copy == TRUE

\* db.sample_still_used(sample_sha256, task_id): another task of the store
\* references the same content hash
SampleStillUsed(sha, task_id) ==
  \E u \in TaskIds : u # task_id /\ Sha(u) = sha

\* the reference check left out of the condition
ShouldDeleteCopyUnchecked(copy_exists, still_used) == copy_exists

\* line 143: path_exists(copy_path) and not db.sample_still_used(...)
ShouldDeleteCopy(copy_exists, still_used) == copy_exists /\ ~still_used

\* lines 362-378, parse_id, on the argument already split at "," and at "-"
\* and mapped to int: a block is one number or two.  A block of any other
\* length, or one whose end is below its start, raises TypeError.
ParseIdRaises(s) ==
  \E i \in 1..Len(s) :
    \/ Len(s[i]) \notin {1, 2}
    \/ Len(s[i]) = 2 /\ s[i][2] < s[i][1]

\* lines 370-378: the blocks parse_id returns, (n, n) for a single number
ParseId(s) ==
  [i \in 1..Len(s) |-> IF Len(s[i]) = 2 THEN <<s[i][1], s[i][2]>>
                                         ELSE <<s[i][1], s[i][1]>>]

\* the id arguments of the model: one or two blocks of one to three numbers
IdBlocks ==
  {<<a>> : a \in TaskIds} \cup (TaskIds \X TaskIds) \cup {<<1, 1, 1>>}
IdStrings == {<<b>> : b \in IdBlocks} \cup (IdBlocks \X IdBlocks)

\* the folder check always passing
FolderExistsAlways(ex, n) == TRUE

\* line 462: path_exists(os.path.join(CUCKOO_ROOT, "storage", "analyses", str(num)))
FolderExists(ex, n) == n \in ex

\* ------------------------------------------------------------------ Init
Init ==
  /\ mode \in {"auto", "batch"}
  /\ status \in [TaskIds -> {TASK_COMPLETED, TASK_FAILED_PROCESSING}]
  /\ nwrites = [t \in TaskIds |-> "none"]
  /\ timed_out = {}
  /\ submitted = {}
  /\ candidate = FALSE
  /\ pending_future_map = EmptyMap
  /\ pending_task_id_map = EmptyMap
  /\ count = 0
  /\ tasks = <<>>
  /\ idx = 0
  /\ cur = 0
  /\ future = 0
  /\ ended_by = "none"
  /\ exit_code = -1
  /\ htask = [h \in Handles |-> 0]
  /\ wpc = [h \in Handles |-> "none"]
  /\ outcome = [h \in Handles |-> "none"]
  /\ cbpc = [h \in Handles |-> "unset"]
  /\ num = 0
  /\ block = 0
  /\ binaries = Hashes
  /\ \/ /\ mode = "auto"
        /\ parallel \in 1..MaxParallel
        /\ failed_processing \in BOOLEAN
        /\ maxcount \in {0, MaxCountCfg}
        /\ report = TRUE
        /\ exists = TaskIds
        /\ id_string = <<>>
        /\ pc = "top"
     \/ /\ mode = "batch"
        /\ parallel = 1
        /\ failed_processing = FALSE
        /\ maxcount = 0
        /\ report \in BOOLEAN
        /\ exists \in SUBSET TaskIds
        /\ id_string \in IdStrings
        /\ pc = "parse_args"

\* ------------------------------------------------- autoprocess: the loop
\* the locals of an iteration (tasks, task, future) are dead once it ends:
\* the next iteration assigns them before it reads them
EndIteration ==
  /\ tasks' = <<>>
  /\ idx' = 0
  /\ cur' = 0
  /\ future' = 0
  /\ candidate' = FALSE

\* an exception leaves the while loop and the with block (lines 310-326)
LoopLeave(why) ==
  /\ pc' = "pool_exit"
  /\ ended_by' = why
  /\ EndIteration

\* line 257 and lines 269-271: loop condition, then the capacity check
LoopTop ==
  /\ pc = "top"
  /\ IF ~WhileCond(count, maxcount)
       THEN LoopLeave("maxcount")
       ELSE /\ pc' = IF PoolFull(pending_task_id_map, parallel) THEN "sleep" ELSE "query"
            /\ candidate' =
                 /\ ~PoolFull(pending_task_id_map, parallel)
                 /\ \E t \in TaskIds :
                      /\ status[t] = EligibleStatus(failed_processing)
                      /\ t \notin DOMAIN pending_task_id_map
            /\ UNCHANGED <<ended_by, tasks, idx, cur, future>>
  /\ UNCHANGED <<cfgvars, binaries, storevars, histvars, mapvars, poolvars, count,
                 exit_code, batchvars>>

\* time.sleep(5) at line 270 or 309
Sleep ==
  /\ pc = "sleep"
  /\ pc' = "top"
  /\ EndIteration
  /\ UNCHANGED <<cfgvars, binaries, storevars, histvars, mapvars, poolvars, count,
                 ended_by, exit_code, batchvars>>

\* lines 272-276: db.list_tasks(...); added = False
Query ==
  /\ pc = "query"
  /\ count < MaxSubmit
  /\ tasks' = ListTasks(status, EligibleStatus(failed_processing), parallel)
  /\ idx' = 1
  /\ pc' = "for"
  /\ UNCHANGED <<cfgvars, binaries, storevars, histvars, mapvars, poolvars, count, cur,
                 future, candidate, ended_by, exit_code, batchvars>>

\* lines 278-281 and 307-309: next candidate, skipped when already pending
ForNext ==
  /\ pc = "for"
  /\ IF idx > Len(tasks)
       THEN /\ pc' = "sleep"
            /\ UNCHANGED <<idx, cur>>
       ELSE IF AlreadyPending(pending_task_id_map, tasks[idx])
              THEN /\ idx' = idx + 1
                   /\ UNCHANGED <<pc, cur>>
              ELSE /\ cur' = tasks[idx]
                   /\ pc' = "schedule"
                   /\ UNCHANGED idx
  /\ UNCHANGED <<cfgvars, binaries, storevars, histvars, mapvars, poolvars, count, tasks,
                 future, candidate, ended_by, exit_code, batchvars>>

\* line 296: future = pool.schedule(process, args, kwargs, timeout=...);
\* the new future takes the first free identity
Schedule ==
  /\ pc = "schedule"
  /\ \E h \in Handles :
       /\ htask[h] = 0
       /\ \A g \in Handles : g < h => htask[g] # 0
       /\ htask' = [htask EXCEPT ![h] = cur]
       /\ wpc' = [wpc EXCEPT ![h] = "processing"]
       /\ future' = h
  /\ submitted' = submitted \cup {cur}
  /\ pc' = "ins1"
  /\ UNCHANGED <<cfgvars, binaries, storevars, timed_out, mapvars, outcome, cbpc, count,
                 tasks, idx, cur, candidate, ended_by, exit_code, batchvars>>

\* line 297: pending_future_map[future] = task.id
InsertFutureMap ==
  /\ pc = "ins1"
  /\ pending_future_map' = MapSet(pending_future_map, future, cur)
  /\ pc' = "ins2"
  /\ UNCHANGED <<cfgvars, binaries, storevars, histvars, pending_task_id_map, poolvars,
                 count, itervars, ended_by, exit_code, batchvars>>

\* the task id stored in place of the future
InsertTaskIdMapStoresId ==
  /\ pc = "ins2"
  /\ pending_task_id_map' = MapSet(pending_task_id_map, cur, cur)
  /\ pc' = "addcb"
  /\ UNCHANGED <<cfgvars, binaries, storevars, histvars, pending_future_map, poolvars,
                 count, itervars, ended_by, exit_code, batchvars>>

\* line 298: pending_task_id_map[task.id] = future
InsertTaskIdMap ==
  /\ pc = "ins2"
  /\ pending_task_id_map' = MapSet(pending_task_id_map, cur, future)
  /\ pc' = "addcb"
  /\ UNCHANGED <<cfgvars, binaries, storevars, histvars, pending_future_map, poolvars,
                 count, itervars, ended_by, exit_code, batchvars>>

\* line 299: future.add_done_callback(processing_finished).  On a future that
\* is already resolved the callback runs inline, on the main thread;
\* otherwise it is registered and lines 303-305 follow at once
\* (count += 1; added = True; break).
AddDoneCallback ==
  /\ pc = "addcb"
  /\ cbpc' = [cbpc EXCEPT ![future] = "armed"]
  /\ IF outcome[future] # "none"
       THEN /\ pc' = "in_callback"
            /\ UNCHANGED <<count, itervars>>
       ELSE /\ pc' = "top"
            /\ count' = count + 1
            /\ EndIteration
  /\ UNCHANGED <<cfgvars, binaries, storevars, histvars, mapvars, htask, wpc, outcome,
                 ended_by, exit_code, batchvars>>

\* lines 273-275 and 296: the store query or the submission raises
LoopRaise ==
  /\ pc \in {"query", "schedule"}
  /\ \E e \in LoopErrors : LoopLeave(e)
  /\ UNCHANGED <<cfgvars, binaries, storevars, histvars, mapvars, poolvars, count,
                 exit_code, batchvars>>

\* lines 255 and 310-326: leaving the with block closes and joins the pool,
\* which waits for the scheduled work and its callbacks; then the except
\* clause that matches runs (sys.exit(1) for MemoryError)
PoolExit ==
  /\ pc = "pool_exit"
  /\ \A h \in Scheduled : cbpc[h] = "raised"
  /\ pc' = "returned"
  /\ exit_code' = ExitCode(ended_by)
  /\ UNCHANGED <<cfgvars, binaries, storevars, histvars, mapvars, poolvars, count,
                 itervars, ended_by, batchvars>>

\* ------------------------------------------------- process(): the worker
\* process() of future h returned or raised: the future resolves
Resolve(h, how) ==
  /\ wpc' = [wpc EXCEPT ![h] = "done"]
  /\ outcome' = [outcome EXCEPT ![h] = how]

\* a stage of process() raises: the exception leaves process() unhandled
StageRaise(h) ==
  /\ wpc[h] \in {"processing", "signatures", "reporting", "cleanup"}
  /\ \E e \in StageErrors : Resolve(h, e)
  /\ UNCHANGED <<cfgvars, binaries, storevars, histvars, mapvars, loopvars, htask, cbpc, batchvars>>

\* line 117: RunProcessing(task=task_dict, results=results).run()
RunProcessing(h) ==
  /\ wpc[h] = "processing"
  /\ wpc' = [wpc EXCEPT ![h] = StageAfter("processing")]
  /\ UNCHANGED <<cfgvars, binaries, storevars, histvars, mapvars, loopvars, htask,
                 outcome, cbpc, batchvars>>

\* lines 122-127: RunSignatures(...).run(); if report:
RunSignatures(h) ==
  /\ wpc[h] = "signatures"
  /\ IF ReportEnabled(report)
       THEN /\ wpc' = [wpc EXCEPT ![h] = StageAfter("signatures")]
            /\ UNCHANGED outcome
       ELSE Resolve(h, "success")
  /\ UNCHANGED <<cfgvars, binaries, storevars, histvars, mapvars, loopvars, htask, cbpc, batchvars>>

\* lines 133-136: RunReporting(...).run(), which shares no state with the
\* scheduler; Database().set_status(task_id, TASK_REPORTED); if auto:
RunReporting(h) ==
  /\ wpc[h] = "reporting"
  /\ SetStatus(htask[h], TASK_REPORTED)
  /\ IF mode = "auto"
       THEN /\ wpc' = [wpc EXCEPT ![h] = "cleanup"]
            /\ UNCHANGED outcome
       ELSE Resolve(h, "success")
  /\ UNCHANGED <<cfgvars, binaries, histvars, mapvars, loopvars, htask, cbpc, batchvars>>

\* lines 136-155: under if auto:, inside if report:, the original is
\* deleted and, with delete_bin_copy, the copy under storage/binaries when
\* line 143 allows it; then process() returns
Cleanup(h) ==
  /\ wpc[h] = "cleanup"
  /\ LET sample_sha256 == Sha(htask[h])
     IN binaries' =
          IF /\ delete_bin_copy
             /\ ShouldDeleteCopy(sample_sha256 \in binaries,
                                 SampleStillUsed(sample_sha256, htask[h]))
            THEN binaries \ {sample_sha256}
            ELSE binaries
  /\ Resolve(h, "success")
  /\ UNCHANGED <<cfgvars, storevars, histvars, mapvars, loopvars, htask, cbpc, batchvars>>

\* the pool ends a worker that runs past timeout=processing_timeout (line 296)
PoolTimeout(h) ==
  /\ mode = "auto"
  /\ Running(h)
  /\ Resolve(h, "timeout")
  /\ timed_out' = timed_out \cup {htask[h]}
  /\ UNCHANGED submitted
  /\ UNCHANGED <<cfgvars, binaries, storevars, mapvars, loopvars, htask, cbpc, batchvars>>

\* the worker process dies: the future raises pebble.ProcessExpired
WorkerExpired(h) ==
  /\ mode = "auto"
  /\ Running(h)
  /\ Resolve(h, "expired")
  /\ UNCHANGED <<cfgvars, binaries, storevars, histvars, mapvars, loopvars, htask, cbpc, batchvars>>

\* ---------------------------------------------------- processing_finished
\* the callback returned or raised (the future logs an exception of its
\* callback).  An inline callback returns into line 299 and lines 303-305
\* follow: count += 1; added = True; break.
CallbackReturns(h) ==
  IF pc = "in_callback" /\ future = h
    THEN /\ pc' = "top"
         /\ count' = count + 1
         /\ EndIteration
    ELSE UNCHANGED <<pc, count, itervars>>

\* the callback raised: the future stays, with what the registry still holds
CallbackRaises(h) ==
  /\ cbpc' = [cbpc EXCEPT ![h] = "raised"]
  /\ UNCHANGED <<htask, wpc, outcome>>
  /\ CallbackReturns(h)

\* lines 225-237: task_id = pending_future_map.get(future); future.result().
\* task_id is the id line 297 stored for this future, htask[h].  The handler
\* of TimeoutError reads error.args[1] before it writes the status: on a
\* TimeoutError without a second argument that raises IndexError and the
\* callback ends there.
FinishedResult(h) ==
  /\ cbpc[h] = "armed"
  /\ outcome[h] # "none"
  /\ IF outcome[h] = "success"
       THEN /\ cbpc' = [cbpc EXCEPT ![h] = "pop1"]
            /\ UNCHANGED <<storevars, htask, wpc, outcome, pc, count, itervars>>
       ELSE IF outcome[h] = "timeout_noargs"
              THEN /\ CallbackRaises(h)
                   /\ UNCHANGED storevars
              ELSE /\ cbpc' = [cbpc EXCEPT ![h] = "pop1"]
                   /\ SetStatus(htask[h], TASK_FAILED_PROCESSING)
                   /\ UNCHANGED <<htask, wpc, outcome, pc, count, itervars>>
  /\ UNCHANGED <<cfgvars, binaries, histvars, mapvars, ended_by, exit_code, batchvars>>

\* line 239: pending_future_map.pop(future)
FinishedPopFuture(h) ==
  /\ cbpc[h] = "pop1"
  /\ IF h \in DOMAIN pending_future_map
       THEN /\ pending_future_map' = MapPop(pending_future_map, h)
            /\ cbpc' = [cbpc EXCEPT ![h] = "pop2"]
            /\ UNCHANGED <<htask, wpc, outcome, pc, count, itervars>>
       ELSE /\ CallbackRaises(h)
            /\ UNCHANGED pending_future_map
  /\ UNCHANGED <<cfgvars, binaries, storevars, histvars, pending_task_id_map, ended_by,
                 exit_code, batchvars>>

\* lines 240-242: pending_task_id_map.pop(task_id); the callback returns and
\* nothing refers to the future any more
FinishedPopTaskId(h) ==
  /\ cbpc[h] = "pop2"
  /\ IF htask[h] \in DOMAIN pending_task_id_map
       THEN /\ pending_task_id_map' = MapPop(pending_task_id_map, htask[h])
            /\ htask' = [htask EXCEPT ![h] = 0]
            /\ wpc' = [wpc EXCEPT ![h] = "none"]
            /\ outcome' = [outcome EXCEPT ![h] = "none"]
            /\ cbpc' = [cbpc EXCEPT ![h] = "unset"]
            /\ CallbackReturns(h)
       ELSE /\ CallbackRaises(h)
            /\ UNCHANGED pending_task_id_map
  /\ UNCHANGED <<cfgvars, binaries, storevars, histvars, pending_future_map, ended_by,
                 exit_code, batchvars>>

\* ------------------------------------------------------- main(): batch
\* line 385 and lines 362-378: argparse applies parse_id to the id argument;
\* a TypeError of parse_id makes argparse end the program with status 2
ParseArgs ==
  /\ pc = "parse_args"
  /\ IF ParseIdRaises(id_string)
       THEN /\ pc' = "returned"
            /\ exit_code' = 2
            /\ ended_by' = "invalid_id"
       ELSE /\ pc' = "batch_start"
            /\ UNCHANGED <<exit_code, ended_by>>
  /\ UNCHANGED <<cfgvars, binaries, storevars, histvars, mapvars, poolvars, count,
                 itervars, batchvars>>

\* lines 458-459: for start, end in args.id: for num in range(start, end + 1)
BatchNext ==
  /\ pc \in {"batch_start", "batch_next"}
  /\ LET args_id == ParseId(id_string)
     IN IF pc = "batch_next" /\ num + 1 <= args_id[block][2]
          THEN /\ num' = num + 1
               /\ pc' = "batch_check"
               /\ UNCHANGED <<block, exit_code, ended_by>>
          ELSE IF block + 1 <= Len(args_id)
                 THEN /\ block' = block + 1
                      /\ num' = args_id[block + 1][1]
                      /\ pc' = "batch_check"
                      /\ UNCHANGED <<exit_code, ended_by>>
                 ELSE /\ pc' = "returned"
                      /\ exit_code' = 0
                      /\ ended_by' = "finished"
                      /\ UNCHANGED <<block, num>>
  /\ UNCHANGED <<cfgvars, binaries, storevars, histvars, mapvars, poolvars, count, itervars>>

\* lines 462-463 and 493: sys.exit(...) when the analysis folder is gone,
\* otherwise process(task=task, report=args.report, ...) on the main thread
BatchCheck ==
  /\ pc = "batch_check"
  /\ IF ~FolderExists(exists, num)
       THEN /\ pc' = "returned"
            /\ exit_code' = 1
            /\ ended_by' = "missing_folder"
            /\ UNCHANGED poolvars
       ELSE /\ pc' = "batch_process"
            /\ htask' = [htask EXCEPT ![1] = num]
            /\ wpc' = [wpc EXCEPT ![1] = "processing"]
            /\ UNCHANGED <<exit_code, ended_by, outcome, cbpc>>
  /\ UNCHANGED <<cfgvars, binaries, storevars, histvars, mapvars, count, itervars, batchvars>>

\* lines 493-501: process() returned, or its exception ends the program
BatchReturn ==
  /\ pc = "batch_process"
  /\ wpc[1] = "done"
  /\ IF outcome[1] = "success"
       THEN /\ pc' = "batch_next"
            /\ UNCHANGED <<exit_code, ended_by>>
       ELSE /\ pc' = "returned"
            /\ exit_code' = 1
            /\ ended_by' = "Exception"
  /\ htask' = [htask EXCEPT ![1] = 0]
  /\ wpc' = [wpc EXCEPT ![1] = "none"]
  /\ outcome' = [outcome EXCEPT ![1] = "none"]
  /\ UNCHANGED <<cfgvars, binaries, storevars, histvars, mapvars, cbpc, count, itervars, batchvars>>

\* ------------------------------------------------------------------ Next
Next ==
  \/ LoopTop
  \/ Sleep
  \/ Query
  \/ ForNext
  \/ Schedule
  \/ InsertFutureMap
  \/ InsertTaskIdMap
  \/ AddDoneCallback
  \/ LoopRaise
  \/ PoolExit
  \/ \E h \in Handles : StageRaise(h)
  \/ \E h \in Handles : RunProcessing(h)
  \/ \E h \in Handles : RunSignatures(h)
  \/ \E h \in Handles : RunReporting(h)
  \/ \E h \in Handles : Cleanup(h)
  \/ \E h \in Handles : PoolTimeout(h)
  \/ \E h \in Handles : WorkerExpired(h)
  \/ \E h \in Handles : FinishedResult(h)
  \/ \E h \in Handles : FinishedPopFuture(h)
  \/ \E h \in Handles : FinishedPopTaskId(h)
  \/ ParseArgs
  \/ BatchNext
  \/ BatchCheck
  \/ BatchReturn

Spec == Init /\ [][Next]_vars

\* ---------------------------------------------------------------- claims
InFlight == DOMAIN pending_task_id_map

\* C1: in autoprocess the number of tasks in pending_task_id_map never
\* exceeds the configured parallelism, whatever the interleaving of the loop
\* and the callbacks.
C1_InFlightBounded ==
  mode = "auto" => Cardinality(InFlight) <= parallel

\* the registry is full with two tasks and the loop backs off
C1_Witness ==
  /\ mode = "auto"
  /\ parallel = 2
  /\ Cardinality(InFlight) = 2
  /\ pc = "sleep"

\* C2: no two futures are registered for the same task id, and the task the
\* loop is submitting is not in the registry, even if the store lists it.
C2_NoDuplicateInFlight ==
  /\ \A g, h \in DOMAIN pending_future_map :
       g # h => pending_future_map[g] # pending_future_map[h]
  /\ pc = "schedule" => cur \notin InFlight
  /\ pc = "ins1" => cur \notin InFlight

\* the loop skipped a candidate that is in flight and still listed as
\* eligible by the store, and is about to submit the next one
C2_Witness ==
  /\ pc = "schedule"
  /\ idx = 2
  /\ tasks[1] \in InFlight
  /\ status[tasks[1]] = EligibleStatus(failed_processing)
  /\ cur = tasks[2]

\* a step that ends processing_finished for future h, by return or by raise
CallbackEnds(h) ==
  /\ cbpc[h] \in {"armed", "pop1", "pop2"}
  /\ cbpc'[h] \in {"unset", "raised"}

\* C3: for every submitted task processing_finished runs once when the
\* future resolves and that run removes the entry of that task from the
\* registry and no other: a step of the callback keeps the entries of the
\* other futures, and when the callback ends its own entry is gone.
C3_CallbackRemovesEntry ==
  [][\A h \in Handles :
       /\ cbpc'[h] # cbpc[h] =>
            \A g \in DOMAIN pending_future_map \ {h} :
              /\ g \in DOMAIN pending_future_map'
              /\ pending_future_map[g] \in DOMAIN pending_task_id_map =>
                   pending_future_map[g] \in DOMAIN pending_task_id_map'
       /\ CallbackEnds(h) =>
            /\ h \notin DOMAIN pending_future_map'
            /\ ~(/\ htask[h] \in DOMAIN pending_task_id_map'
                 /\ pending_task_id_map'[htask[h]] = h)]_vars

\* C4: whatever the outcome of the future, at the step that ends
\* processing_finished the task is absent from pending_future_map and from
\* pending_task_id_map.
C4_AbsentWhenCallbackEnds ==
  [][\A h \in Handles :
       CallbackEnds(h) =>
         /\ \A g \in DOMAIN pending_future_map' : pending_future_map'[g] # htask[h]
         /\ htask[h] \notin DOMAIN pending_task_id_map']_vars

\* C5: a task whose run was ended by the pool timeout has status
\* FAILED_PROCESSING when it is reconciled and is never submitted again in
\* the same run of autoprocess.
C5_TimedOutNotRetried ==
  [][/\ \A h \in Handles :
          (outcome'[h] = "timeout" /\ cbpc'[h] \in {"pop1", "pop2"}) =>
            status'[htask'[h]] = TASK_FAILED_PROCESSING
     /\ (pc = "schedule" /\ pc' = "ins1") => cur \notin timed_out]_vars

\* C6: a run of process() with report set whose stages all succeed ends with
\* status REPORTED; a run with report unset never writes a status.
C6_ReportFlagDecidesReported ==
  [][\A h \in Handles :
       /\ (report /\ outcome[h] = "none" /\ outcome'[h] = "success") =>
            status'[htask[h]] = TASK_REPORTED
       /\ (~report /\ Running(h) /\ wpc'[h] # wpc[h]) =>
            (status' = status /\ nwrites' = nwrites)]_vars

\* a batch run with report set returned and left the task REPORTED
C6_Witness ==
  /\ mode = "batch"
  /\ report
  /\ pc = "batch_process"
  /\ outcome[1] = "success"
  /\ status[num] = TASK_REPORTED

\* C7: whenever the loop submits a task, no other task that is eligible in
\* the store and not in the registry at that moment completed earlier.
C7_OldestFirst ==
  [][(pc = "schedule" /\ pc' = "ins1") =>
       \A u \in TaskIds \ {cur} :
         (status[u] = EligibleStatus(failed_processing) /\ u \notin InFlight) =>
           CompletedOn(cur) < CompletedOn(u)]_vars

\* C8: for every future that resolves to a timeout, a worker crash or an
\* exception of a stage, processing_finished has set FAILED_PROCESSING by the
\* time it goes on to release the registry entry or ends.
C8_FailureStatusWritten ==
  \A h \in Handles :
    (outcome[h] \in Failures /\ cbpc[h] \in {"pop1", "pop2", "raised"}) =>
      status[htask[h]] = TASK_FAILED_PROCESSING

\* C9: at most one terminal status (REPORTED or FAILED_PROCESSING) is written
\* for a task id within one run.
C9_OneTerminalWrite ==
  \A t \in TaskIds : nwrites[t] # "many"

\* C10: an unexpected error in one iteration does not end the dispatch loop.
C10_LoopSurvivesError ==
  mode = "auto" => ended_by # "Exception"

\* C11: in process() the stages run in the order Processing, Signature,
\* Reporting (only with report), and REPORTED is written only by the step
\* that completes Reporting: a stage that raises writes no status, so a run
\* whose Processing, Signature or Reporting raises never writes REPORTED.
C11_StageOrder ==
  [][\A h \in Handles :
       (Running(h) /\ wpc'[h] # wpc[h]) =>
         /\ <<wpc[h], wpc'[h]>> \in
              {<<"processing", "signatures">>, <<"signatures", "reporting">>,
               <<"reporting", "cleanup">>} \cup
              ({"processing", "signatures", "reporting", "cleanup"} \X {"done"})
         /\ status' # status =>
              /\ wpc[h] = "reporting"
              /\ report
              /\ outcome'[h] \in {"none", "success"}
              /\ status' = [status EXCEPT ![htask[h]] = TASK_REPORTED]
         /\ outcome'[h] \in Failures => status' = status
         /\ wpc'[h] = "reporting" => report]_vars

\* Signature or Processing raised in a worker: the future is resolved with
\* the exception and the run has written nothing for its task
C11_Witness ==
  \E h \in Handles :
    /\ mode = "auto"
    /\ outcome[h] = "exception"
    /\ cbpc[h] = "armed"
    /\ nwrites[htask[h]] = "none"
    /\ status[htask[h]] = TASK_COMPLETED

\* pool.schedule calls made so far: count, plus the call of the iteration
\* under way, which is counted at line 303
Submissions ==
  count + (IF pc \in {"ins1", "ins2", "addcb", "in_callback"} THEN 1 ELSE 0)

\* C12: with maxcount > 0 autoprocess never submits more than maxcount
\* tasks and no iteration goes on once count has reached maxcount; the loop
\* ends for that reason only when maxcount is set and reached.
C12_MaxCountRespected ==
  mode = "auto" =>
    /\ maxcount > 0 => Submissions <= maxcount
    /\ (maxcount > 0 /\ pc \in {"sleep", "query", "for", "schedule"}) =>
         count < maxcount
    /\ ended_by = "maxcount" => (maxcount > 0 /\ count = maxcount)

\* the loop ended because count reached the configured maximum
C12_Witness ==
  /\ mode = "auto"
  /\ maxcount > 0
  /\ ended_by = "maxcount"
  /\ count = maxcount
  /\ pc = "returned"

\* C13: when the loop ended because maxcount was reached, autoprocess has
\* returned only with every submitted task resolved and reconciled: the
\* registry is empty.
C13_RegistryEmptyOnReturn ==
  (mode = "auto" /\ ended_by = "maxcount" /\ pc = "returned") =>
    /\ pending_future_map = EmptyMap
    /\ pending_task_id_map = EmptyMap
    /\ \A h \in Handles : ~Running(h)

\* the main thread runs the dispatch loop and the pool shutdown
LoopStep ==
  \/ LoopTop \/ Sleep \/ Query \/ ForNext \/ Schedule \/ InsertFutureMap
  \/ InsertTaskIdMap \/ AddDoneCallback \/ PoolExit

\* a worker process runs process() to its end, or the pool ends the run
WorkerStep(h) ==
  \/ RunProcessing(h) \/ RunSignatures(h) \/ RunReporting(h) \/ Cleanup(h)
  \/ StageRaise(h) \/ PoolTimeout(h) \/ WorkerExpired(h)

\* the thread that resolved the future runs processing_finished
CallbackStep(h) ==
  \/ FinishedResult(h) \/ FinishedPopFuture(h) \/ FinishedPopTaskId(h)

\* The main thread, every worker and every callback keep running; raising
\* an error in the loop (LoopRaise) is never forced.
FairSpec ==
  /\ Spec
  /\ WF_vars(LoopStep)
  /\ \A h \in Handles : WF_vars(WorkerStep(h)) /\ WF_vars(CallbackStep(h))

\* C14: once the run of some task has failed, every other task that is
\* eligible is eventually dispatched, unless it stops being eligible, the
\* loop ends, or MaxSubmit submissions have been made.
C14_FailureDoesNotStopDispatch ==
  \A t \in TaskIds :
    (/\ mode = "auto"
     /\ status[t] = EligibleStatus(failed_processing)
     /\ t \notin InFlight
     /\ \E h \in Handles : htask[h] # t /\ outcome[h] \in Failures)
    ~> (\/ t \in InFlight
        \/ status[t] # EligibleStatus(failed_processing)
        \/ ended_by # "none"
        \/ count >= MaxSubmit)

\* C15: after a MemoryError in the dispatch loop no further iteration runs
\* and the program ends with a nonzero exit status.
C15_MemoryErrorIsFatal ==
  (mode = "auto" /\ ended_by = "MemoryError") =>
    /\ pc \in {"pool_exit", "returned"}
    /\ pc = "returned" => exit_code # 0

\* a MemoryError met with work in flight: the program has ended with status 1
C15_Witness ==
  /\ mode = "auto"
  /\ ended_by = "MemoryError"
  /\ pc = "returned"
  /\ exit_code = 1
  /\ count > 0

\* a submission is between lines 297 and 298, or a reconciliation between
\* lines 239 and 240
PartWay ==
  \/ pc = "ins2"
  \/ \E h \in Handles : cbpc[h] = "pop2"

\* C20: whenever no submission and no reconciliation is part-way through,
\* pending_future_map and pending_task_id_map are inverses of each other
\* and have the same size.
C20_RegistryMapsInverse ==
  ~PartWay =>
    /\ \A h \in DOMAIN pending_future_map :
         /\ pending_future_map[h] \in DOMAIN pending_task_id_map
         /\ pending_task_id_map[pending_future_map[h]] = h
    /\ \A t \in DOMAIN pending_task_id_map :
         /\ pending_task_id_map[t] \in DOMAIN pending_future_map
         /\ pending_future_map[pending_task_id_map[t]] = t
    /\ Cardinality(DOMAIN pending_future_map) =
         Cardinality(DOMAIN pending_task_id_map)

\* two entries on each side while a third party, a callback, is about to
\* start removing one of them
C20_Witness ==
  /\ ~PartWay
  /\ Cardinality(DOMAIN pending_future_map) = 2
  /\ \E h \in Handles : cbpc[h] = "armed" /\ outcome[h] = "success"

\* C17: an iteration that began below the parallelism with an eligible task
\* outside the registry does not fall through to the idle sleep of line 309:
\* it leaves the for loop by submitting a task.
C17_CandidateIsSubmitted ==
  [][(pc = "for" /\ pc' = "sleep") => ~candidate]_vars

\* the run of a task was ended at the timeout, and an iteration that began
\* with a candidate has skipped a pending task and submitted the next one
C17_Witness ==
  /\ candidate
  /\ pc = "ins1"
  /\ idx > 1
  /\ timed_out # {}
  /\ cur \notin timed_out

\* C19: in normal mode (eligibility COMPLETED) no task id is handed to
\* pool.schedule twice during a run of autoprocess.
C19_NoResubmission ==
  [][(pc = "schedule" /\ pc' = "ins1" /\ ~failed_processing) =>
       cur \notin submitted]_vars

\* C16: in batch mode main() takes the ids of each requested block one at
\* a time in ascending order, block after block, and runs process() on the
\* main thread, never through the pool; the first id whose analysis folder
\* is missing ends the program with a nonzero status, and nothing is
\* processed after the program has ended.
C16_BatchStopsAtMissingFolder ==
  [][mode = "batch" =>
       LET args_id == ParseId(id_string)
       IN /\ <<block, num>> # <<block', num'>> =>
               \/ /\ block' = block
                  /\ num' = num + 1
                  /\ num' <= args_id[block][2]
               \/ /\ block' = block + 1
                  /\ block > 0 => num = args_id[block][2]
                  /\ num' = args_id[block'][1]
          /\ (wpc[1] = "none" /\ wpc'[1] = "processing") =>
               /\ pc = "batch_check"
               /\ num \in exists
               /\ htask'[1] = num
               /\ num \in args_id[block][1]..args_id[block][2]
          /\ (pc = "batch_check" /\ num \notin exists) =>
               (pc' = "returned" /\ exit_code' # 0 /\ wpc' = wpc)
          /\ pc = "returned" => (wpc' = wpc /\ status' = status)
          /\ pending_future_map' = EmptyMap
          /\ \A h \in Handles : cbpc'[h] = "unset" /\ (h # 1 => htask'[h] = 0)]_vars

\* the ids of a first block were processed, the folder of an id of the
\* second block is missing: the program has ended with status 1 before the
\* last id of that block
C16_Witness ==
  /\ mode = "batch"
  /\ pc = "returned"
  /\ ended_by = "missing_folder"
  /\ exit_code = 1
  /\ block = 2
  /\ num < ParseId(id_string)[block][2]
  /\ report
  /\ \E t \in TaskIds : nwrites[t] # "none"

C21_CallbackTouchesOwnTaskOnly ==
  [][\A h \in Handles :
       (cbpc[h] \in {"armed", "pop1", "pop2"} /\ cbpc'[h] # cbpc[h]) =>
         /\ \A u \in TaskIds \ {htask[h]} :
              /\ status'[u] = status[u]
              /\ nwrites'[u] = nwrites[u]
              /\ u \in DOMAIN pending_task_id_map =>
                   /\ u \in DOMAIN pending_task_id_map'
                   /\ pending_task_id_map'[u] = pending_task_id_map[u]
         /\ \A g \in Handles \ {h} :
              g \in DOMAIN pending_future_map =>
                /\ g \in DOMAIN pending_future_map'
                /\ pending_future_map'[g] = pending_future_map[g]
         /\ outcome[h] = "success" => (status' = status /\ nwrites' = nwrites)
         /\ status' # status =>
              status' = [status EXCEPT ![htask[h]] = TASK_FAILED_PROCESSING]]_vars

\* the callback of a failed run has written FAILED_PROCESSING for its task
\* and is about to pop, while another task is in the registry, untouched
C21_Witness ==
  \E h, g \in Handles :
    /\ h # g
    /\ cbpc[h] = "pop1"
    /\ outcome[h] \in {"timeout", "expired", "exception"}
    /\ status[htask[h]] = TASK_FAILED_PROCESSING
    /\ nwrites[htask[h]] = "one"
    /\ htask[g] # 0 /\ htask[g] # htask[h]
    /\ htask[g] \in DOMAIN pending_task_id_map
    /\ pending_task_id_map[htask[g]] = g
    /\ nwrites[htask[g]] = "none"

====
